---- MODULE Spec2Model ----
(***************************************************************************)
(* duplicate_finder (src/main.go): the concurrent hashing pipeline of      *)
(* main -- the directory walk that dispatches one calculateHash goroutine  *)
(* per entry, the admission gate goroutineCh, the supervisor goroutine     *)
(* that closes hashCh and errCh after wg.Wait, and the select loop that    *)
(* aggregates records into fileMap -- followed by the action selection.    *)
(*                                                                         *)
(* Spec is the whole program.  FairSpec is the scan under the scheduling   *)
(* of the Go runtime.  HandlerSpec starts at the action selection, from    *)
(* the groupings of larger trees and with files already in the             *)
(* destination.  FormatSpec and CopySpec apply formatPath and copyFile to  *)
(* inputs of their own.                                                    *)
(***************************************************************************)
EXTENDS Integers, Sequences, FiniteSets, TLC

\* ------------------------------------------------------------------------
\* Bounds of the model
\* ------------------------------------------------------------------------

\* at most this many non-directory entries lie under the scanned root
MaxFiles == 2

\* runtime.NumCPU() ranges over 1..MaxCapacity
MaxCapacity == 2

\* A path is the sequence of its components.  The directories that exist:
\* the scanned root, a directory in it, and a directory outside of it.
TreeDirs == {<<"root">>, <<"root", "sub">>}

Dirs == TreeDirs \cup {<<"out">>}

\* the base names of the non-directory entries
BaseNames == {"a", "b"}

\* file contents (byte strings); two different contents of the same length
Contents == {<<1>>, <<2>>}

\* ------------------------------------------------------------------------
\* The scanned tree
\* ------------------------------------------------------------------------

\* filepath.Join(dir, base)
Join(dir, base) == Append(dir, base)

\* filepath.Base(path)
Base(path) == path[Len(path)]

\* the directory a path lies in
Parent(path) == SubSeq(path, 1, Len(path) - 1)

\* the paths under the root that can hold a non-directory entry at the start
TreePaths == {<<"root", "a">>, <<"root", "b">>, <<"root", "sub", "a">>}

AllPaths == {Join(d, b) : d \in Dirs, b \in BaseNames}

\* lexical order in which filepath.Walk visits the tree: a directory, then
\* its entries by name ("a" < "b" < "sub")
WalkOrder ==
    << <<"root">>, <<"root", "a">>, <<"root", "b">>,
       <<"root", "sub">>, <<"root", "sub", "a">> >>

Absent == [kind |-> "absent"]

\* what a path holds at the start: nothing, a regular file, or a non-regular,
\* non-directory entry (symbolic link, device, pipe, socket), whose bytes,
\* when it can be read, are those of the first content
EntryStates ==
    {Absent} \cup [kind : {"regular"}, data : Contents]
             \cup {[kind |-> "other", data |-> <<1>>]}

\* the filesystems the scan starts from: at most MaxFiles entries under the
\* root, nothing in the directory outside of it
Trees ==
    {t \in [AllPaths -> EntryStates] :
        /\ \A p \in AllPaths \ TreePaths : t[p] = Absent
        /\ Cardinality({p \in TreePaths : t[p] # Absent}) <= MaxFiles}

VARIABLES
    fs,           \* the filesystem: path -> entry state
    capacity,     \* runtime.NumCPU(), the capacity of goroutineCh
    mainpc,       \* position of main
    exitCode,     \* -1 while the process runs, else its exit status
    walkIdx,      \* index in Entries of the next entry filepath.Walk visits
    walkErr,      \* err returned by filepath.Walk is non-nil
    fileCount,    \* main's fileCount
    wg,           \* the WaitGroup counter
    tpc,          \* position of the calculateHash goroutine of each path
    outcome,      \* how the hashing of each path went
    goroutineCh,  \* number of tokens buffered in goroutineCh
    hashCh,       \* "open" or "closed"
    errCh,        \* "open" or "closed"
    hashChNil,    \* main has set its hashCh to nil
    errChNil,     \* main has set its errCh to nil
    suppc,        \* position of the supervisor goroutine
    fileMap,      \* digest -> sequence of File
    scannedCount, \* main's scannedCount
    totalSize,    \* main's totalSize
    errLog,       \* path -> number of "Error processing" lines logged
    sent,         \* path -> [hash, err]: messages the task has emitted
    slotOps,      \* path -> [acq, rel]: acquisitions and releases of a slot
    action,       \* main's action: the last command read, in lower case
    confirmation, \* the answer read by the handler that is running
    destination,  \* the destination read by moveFiles
    todo,         \* the paths the running handler has still to go through
    report,       \* what the running handler logged: <<path, result>>, in order
    printed,      \* the paths listFiles printed for the last command
    typed,        \* the lines the last prompt read, until the loops of a handler run
    folderPath,   \* main's folderPath
    copied        \* the call of copyFile under study: [src, dest, err]

vars ==
    << fs, capacity, mainpc, exitCode, walkIdx, walkErr, fileCount, wg, tpc,
       outcome, goroutineCh, hashCh, errCh, hashChNil, errChNil, suppc,
       fileMap, scannedCount, totalSize, errLog, sent, slotOps,
       action, confirmation, destination, todo, report, printed,
       typed, folderPath, copied >>

\* ------------------------------------------------------------------------
\* Pure helpers
\* ------------------------------------------------------------------------

RECURSIVE md5Sum(_)
\* md5 of a byte string, abstracted as a collision-free fold of its bytes
md5Sum(data) ==
    IF data = <<>> THEN 0
    ELSE md5Sum(SubSeq(data, 1, Len(data) - 1)) * 3 + data[Len(data)]

HexDigits ==
    <<"0", "1", "2", "3", "4", "5", "6", "7", "8", "9", "a", "b", "c", "d", "e", "f">>

RECURSIVE SprintfHex(_)
\* fmt.Sprintf("%x", ...): the lower-case hexadecimal digits
SprintfHex(n) ==
    IF n < 16 THEN <<HexDigits[n + 1]>>
    ELSE SprintfHex(n \div 16) \o <<HexDigits[(n % 16) + 1]>>

\* the File that calculateHash builds for a path whose hashing succeeded
File(path, data) ==
    [Path |-> path, Hash |-> SprintfHex(md5Sum(data)), Size |-> Len(data)]

\* the process is alive: main has neither exited nor returned
Running == exitCode = -1

\* the entries filepath.Walk visits, in order
Entries ==
    SelectSeq(WalkOrder, LAMBDA p : p \in Dirs \/ fs[p] # Absent)

\* os.FileInfo.IsDir of an entry
IsDir(p) == p \in Dirs

\* ------------------------------------------------------------------------
\* Init
\* ------------------------------------------------------------------------

RECURSIVE ReplaceFirst(_, _, _)
\* strings.Replace(s, old, new, 1): only the first occurrence gives way
ReplaceFirst(s, old, new) ==
    IF s = <<>> THEN <<>>
    ELSE IF Head(s) = old THEN new \o Tail(s)
    ELSE <<Head(s)>> \o ReplaceFirst(Tail(s), old, new)

RECURSIVE ReplaceAll(_, _, _)
\* strings.ReplaceAll(s, old, new) for an old of one character: every
\* occurrence of old gives way to the characters of new
ReplaceAll(s, old, new) ==
    IF s = <<>> THEN <<>>
    ELSE (IF Head(s) = old THEN new ELSE <<Head(s)>>)
             \o ReplaceAll(Tail(s), old, new)

\* formatPath (main.go 49-51)
formatPath(path) == ReplaceAll(path, "\\", <<"/">>)

\* the line typed in for the folder whose tree is Trees
RootText == <<"r", "o", "o", "t">>

Init ==
    /\ fs \in Trees
    /\ capacity \in 1..MaxCapacity
    /\ mainpc = "walk"
    /\ exitCode = -1
    /\ walkIdx = 1
    /\ walkErr = FALSE
    /\ fileCount = 0
    /\ wg = 0
    /\ tpc = [p \in TreePaths |-> "none"]
    /\ outcome = [p \in TreePaths |-> "none"]
    /\ goroutineCh = 0
    /\ hashCh = "open"
    /\ errCh = "open"
    /\ hashChNil = FALSE
    /\ errChNil = FALSE
    /\ suppc = "none"
    /\ fileMap = << >>
    /\ scannedCount = 0
    /\ totalSize = 0
    /\ errLog = [p \in TreePaths |-> 0]
    /\ sent = [p \in TreePaths |-> [hash |-> 0, err |-> 0]]
    /\ slotOps = [p \in TreePaths |-> [acq |-> 0, rel |-> 0]]
    /\ action = <<>>
    /\ confirmation = <<>>
    /\ destination = <<>>
    /\ todo = <<>>
    /\ report = <<>>
    /\ printed = <<>>
    /\ typed = <<RootText>>
    /\ folderPath = formatPath(typed[1])
    /\ copied = <<>>

\* ------------------------------------------------------------------------
\* main: the directory walk (main.go 195-215)
\* ------------------------------------------------------------------------

scanVars ==
    << fileMap, scannedCount, totalSize, errLog >>

chanVars ==
    << hashCh, errCh, hashChNil, errChNil >>

taskVars ==
    << tpc, outcome, goroutineCh, sent, slotOps >>

actVars ==
    << action, confirmation, destination, todo, report, printed,
       typed, folderPath, copied >>

\* the walk callback's test for dispatching a hashing task: !info.IsDir()
Dispatches(p) == ~IsDir(p)

\* The callback of filepath.Walk on the next entry, err == nil: a
\* non-directory gets wg.Add(1), a calculateHash goroutine and fileCount++.
WalkFn ==
    /\ Running
    /\ mainpc = "walk"
    /\ walkIdx <= Len(Entries)
    /\ LET p == Entries[walkIdx] IN
         IF Dispatches(p)
         THEN /\ wg' = wg + 1
              /\ tpc' = [tpc EXCEPT ![p] = "acquire"]
              /\ fileCount' = fileCount + 1
         ELSE UNCHANGED << wg, tpc, fileCount >>
    /\ walkIdx' = walkIdx + 1
    /\ UNCHANGED << fs, capacity, mainpc, exitCode, walkErr, outcome,
                    goroutineCh, sent, slotOps, suppc >>
    /\ UNCHANGED chanVars
    /\ UNCHANGED scanVars
    /\ UNCHANGED actVars

\* the error returned by Walk is not checked: main goes on
WalkErrIgnored ==
    /\ Running
    /\ mainpc = "walk"
    /\ walkIdx <= Len(Entries)
    /\ walkErr' = TRUE
    /\ suppc' = "wait"
    /\ mainpc' = "select"
    /\ UNCHANGED << fs, capacity, exitCode, walkIdx, fileCount, wg >>
    /\ UNCHANGED taskVars
    /\ UNCHANGED chanVars
    /\ UNCHANGED scanVars
    /\ UNCHANGED actVars

\* The callback is handed err != nil for the next entry (the root is missing,
\* a directory cannot be read, an lstat fails) and returns it; Walk returns
\* it and main calls log.Fatal, which exits with status 1.
WalkErr ==
    /\ Running
    /\ mainpc = "walk"
    /\ walkIdx <= Len(Entries)
    /\ walkErr' = TRUE
    /\ mainpc' = "fatal"
    /\ exitCode' = 1
    /\ UNCHANGED << fs, capacity, walkIdx, fileCount, wg, suppc >>
    /\ UNCHANGED taskVars
    /\ UNCHANGED chanVars
    /\ UNCHANGED scanVars
    /\ UNCHANGED actVars

\* Walk has visited every entry and returns nil; main starts the supervisor
\* goroutine and enters the select loop.
WalkReturn ==
    /\ Running
    /\ mainpc = "walk"
    /\ walkIdx > Len(Entries)
    /\ suppc' = "wait"
    /\ mainpc' = "select"
    /\ UNCHANGED << fs, capacity, exitCode, walkIdx, walkErr, fileCount, wg >>
    /\ UNCHANGED taskVars
    /\ UNCHANGED chanVars
    /\ UNCHANGED scanVars
    /\ UNCHANGED actVars

\* ------------------------------------------------------------------------
\* calculateHash (main.go 27-47), one goroutine per dispatched path
\* ------------------------------------------------------------------------

mainVars ==
    << fs, capacity, mainpc, exitCode, walkIdx, walkErr, fileCount >>

\* an admission gate that never blocks
AcquireNoGate(p) ==
    /\ Running
    /\ tpc[p] = "acquire"
    /\ goroutineCh' = goroutineCh + 1
    /\ slotOps' = [slotOps EXCEPT ![p].acq = @ + 1]
    /\ tpc' = [tpc EXCEPT ![p] = "open"]
    /\ UNCHANGED << wg, suppc, outcome, sent >>
    /\ UNCHANGED mainVars
    /\ UNCHANGED chanVars
    /\ UNCHANGED scanVars
    /\ UNCHANGED actVars

\* goroutineCh <- struct{}{}: blocks while the buffer holds capacity tokens
Acquire(p) ==
    /\ Running
    /\ tpc[p] = "acquire"
    /\ goroutineCh < capacity
    /\ goroutineCh' = goroutineCh + 1
    /\ slotOps' = [slotOps EXCEPT ![p].acq = @ + 1]
    /\ tpc' = [tpc EXCEPT ![p] = "open"]
    /\ UNCHANGED << wg, suppc, outcome, sent >>
    /\ UNCHANGED mainVars
    /\ UNCHANGED chanVars
    /\ UNCHANGED scanVars
    /\ UNCHANGED actVars

\* os.Open(filePath): succeeds, or fails (the file vanished after it was
\* discovered, or may not be read) and the task goes on to send a HashError
Open(p) ==
    /\ Running
    /\ tpc[p] = "open"
    /\ \E ok \in BOOLEAN :
         IF ok
         THEN /\ tpc' = [tpc EXCEPT ![p] = "read"]
              /\ UNCHANGED outcome
         ELSE /\ tpc' = [tpc EXCEPT ![p] = "sendErr"]
              /\ outcome' = [outcome EXCEPT ![p] = "openErr"]
    /\ UNCHANGED << wg, suppc, goroutineCh, sent, slotOps >>
    /\ UNCHANGED mainVars
    /\ UNCHANGED chanVars
    /\ UNCHANGED scanVars
    /\ UNCHANGED actVars

\* io.Copy(hash, file): succeeds, or fails with a read error
Read(p) ==
    /\ Running
    /\ tpc[p] = "read"
    /\ \E ok \in BOOLEAN :
         IF ok
         THEN /\ tpc' = [tpc EXCEPT ![p] = "sendHash"]
              /\ outcome' = [outcome EXCEPT ![p] = "ok"]
         ELSE /\ tpc' = [tpc EXCEPT ![p] = "sendErr"]
              /\ outcome' = [outcome EXCEPT ![p] = "readErr"]
    /\ UNCHANGED << wg, suppc, goroutineCh, sent, slotOps >>
    /\ UNCHANGED mainVars
    /\ UNCHANGED chanVars
    /\ UNCHANGED scanVars
    /\ UNCHANGED actVars

\* the position of a task after it has emitted its message: the deferred
\* calls run, last registered first -- file.Close, then the slot release
AfterSend == "release"

\* the group is overwritten instead of appended to
AggregateOverwrite(file) ==
    /\ fileMap' =
         IF file.Hash \in DOMAIN fileMap
         THEN [fileMap EXCEPT ![file.Hash] = <<file>>]
         ELSE fileMap @@ (file.Hash :> <<file>>)
    /\ scannedCount' = scannedCount + 1
    /\ totalSize' = totalSize + file.Size

\* main's bookkeeping of a received File (main.go 225-227)
Aggregate(file) ==
    /\ fileMap' =
         IF file.Hash \in DOMAIN fileMap
         THEN [fileMap EXCEPT ![file.Hash] = Append(@, file)]
         ELSE fileMap @@ (file.Hash :> <<file>>)
    /\ scannedCount' = scannedCount + 1
    /\ totalSize' = totalSize + file.Size

\* hashCh <- File{...} meeting main's case file, ok := <-hashCh (both are
\* one step: the channel is unbuffered).  A send on a closed channel panics.
SendHash(p) ==
    /\ Running
    /\ tpc[p] = "sendHash"
    /\ IF hashCh = "closed"
       THEN /\ exitCode' = 2
            /\ UNCHANGED << tpc, sent, mainpc >>
            /\ UNCHANGED scanVars
       ELSE /\ mainpc = "select"
            /\ ~hashChNil
            /\ Aggregate(File(p, fs[p].data))
            /\ sent' = [sent EXCEPT ![p].hash = @ + 1]
            /\ tpc' = [tpc EXCEPT ![p] = AfterSend]
            /\ UNCHANGED << exitCode, mainpc, errLog >>
    /\ UNCHANGED << fs, capacity, walkIdx, walkErr, fileCount, wg, suppc,
                    outcome, goroutineCh, slotOps >>
    /\ UNCHANGED chanVars
    /\ UNCHANGED actVars

\* the error path returns without emitting its HashError
SendErrDropped(p) ==
    /\ Running
    /\ tpc[p] = "sendErr"
    /\ tpc' = [tpc EXCEPT ![p] = AfterSend]
    /\ UNCHANGED << wg, suppc, outcome, goroutineCh, sent, slotOps >>
    /\ UNCHANGED mainVars
    /\ UNCHANGED chanVars
    /\ UNCHANGED scanVars
    /\ UNCHANGED actVars

\* main treats a received HashError as fatal
SendErrFatal(p) ==
    /\ Running
    /\ tpc[p] = "sendErr"
    /\ mainpc = "select"
    /\ ~errChNil
    /\ errLog' = [errLog EXCEPT ![p] = @ + 1]
    /\ sent' = [sent EXCEPT ![p].err = @ + 1]
    /\ tpc' = [tpc EXCEPT ![p] = AfterSend]
    /\ exitCode' = 1
    /\ UNCHANGED << fs, capacity, mainpc, walkIdx, walkErr, fileCount, wg,
                    suppc, outcome, goroutineCh, slotOps,
                    fileMap, scannedCount, totalSize >>
    /\ UNCHANGED chanVars
    /\ UNCHANGED actVars

\* errCh <- HashError{...} meeting main's case err, ok := <-errCh, which
\* logs "Error processing <path>"
SendErr(p) ==
    /\ Running
    /\ tpc[p] = "sendErr"
    /\ IF errCh = "closed"
       THEN /\ exitCode' = 2
            /\ UNCHANGED << tpc, sent, errLog >>
       ELSE /\ mainpc = "select"
            /\ ~errChNil
            /\ errLog' = [errLog EXCEPT ![p] = @ + 1]
            /\ sent' = [sent EXCEPT ![p].err = @ + 1]
            /\ tpc' = [tpc EXCEPT ![p] = AfterSend]
            /\ UNCHANGED exitCode
    /\ UNCHANGED << fs, capacity, mainpc, walkIdx, walkErr, fileCount, wg,
                    suppc, outcome, goroutineCh, slotOps,
                    fileMap, scannedCount, totalSize >>
    /\ UNCHANGED chanVars
    /\ UNCHANGED actVars

\* the slot is never given back
ReleaseLeak(p) ==
    /\ Running
    /\ tpc[p] = "release"
    /\ tpc' = [tpc EXCEPT ![p] = "wgDone"]
    /\ UNCHANGED << wg, suppc, outcome, goroutineCh, sent, slotOps >>
    /\ UNCHANGED mainVars
    /\ UNCHANGED chanVars
    /\ UNCHANGED scanVars
    /\ UNCHANGED actVars

\* the release is not deferred: an error return skips it
ReleaseOnSuccessOnly(p) ==
    /\ Running
    /\ tpc[p] = "release"
    /\ goroutineCh > 0
    /\ IF outcome[p] = "ok"
       THEN /\ goroutineCh' = goroutineCh - 1
            /\ slotOps' = [slotOps EXCEPT ![p].rel = @ + 1]
       ELSE UNCHANGED << goroutineCh, slotOps >>
    /\ tpc' = [tpc EXCEPT ![p] = "wgDone"]
    /\ UNCHANGED << wg, suppc, outcome, sent >>
    /\ UNCHANGED mainVars
    /\ UNCHANGED chanVars
    /\ UNCHANGED scanVars
    /\ UNCHANGED actVars

\* defer func() { <-goroutineCh }(): takes one token out of the buffer
Release(p) ==
    /\ Running
    /\ tpc[p] = "release"
    /\ goroutineCh > 0
    /\ goroutineCh' = goroutineCh - 1
    /\ slotOps' = [slotOps EXCEPT ![p].rel = @ + 1]
    /\ tpc' = [tpc EXCEPT ![p] = "wgDone"]
    /\ UNCHANGED << wg, suppc, outcome, sent >>
    /\ UNCHANGED mainVars
    /\ UNCHANGED chanVars
    /\ UNCHANGED scanVars
    /\ UNCHANGED actVars

\* defer wg.Done(), the last deferred call; the goroutine then ends
WgDone(p) ==
    /\ Running
    /\ tpc[p] = "wgDone"
    /\ wg' = wg - 1
    /\ tpc' = [tpc EXCEPT ![p] = "done"]
    /\ UNCHANGED << suppc, outcome, goroutineCh, sent, slotOps >>
    /\ UNCHANGED mainVars
    /\ UNCHANGED chanVars
    /\ UNCHANGED scanVars
    /\ UNCHANGED actVars

calculateHash(p) ==
    \/ Acquire(p)
    \/ Open(p)
    \/ Read(p)
    \/ SendHash(p)
    \/ SendErr(p)
    \/ Release(p)
    \/ WgDone(p)

\* ------------------------------------------------------------------------
\* The supervisor goroutine (main.go 211-215)
\* ------------------------------------------------------------------------

\* the supervisor does not wait for the tasks
WaitReturnsAtOnce == TRUE

\* wg.Wait() returns when the counter is zero
WaitReturns == wg = 0

SupWait ==
    /\ Running
    /\ suppc = "wait"
    /\ WaitReturns
    /\ suppc' = "closeHash"
    /\ UNCHANGED << wg >>
    /\ UNCHANGED mainVars
    /\ UNCHANGED taskVars
    /\ UNCHANGED chanVars
    /\ UNCHANGED scanVars
    /\ UNCHANGED actVars

\* close(hashCh); closing a closed channel panics
CloseHash ==
    /\ Running
    /\ suppc = "closeHash"
    /\ IF hashCh = "closed"
       THEN /\ exitCode' = 2
            /\ UNCHANGED << hashCh, suppc >>
       ELSE /\ hashCh' = "closed"
            /\ suppc' = "closeErr"
            /\ UNCHANGED exitCode
    /\ UNCHANGED << fs, capacity, mainpc, walkIdx, walkErr, fileCount, wg,
                    errCh, hashChNil, errChNil >>
    /\ UNCHANGED taskVars
    /\ UNCHANGED scanVars
    /\ UNCHANGED actVars

\* close(errCh)
CloseErr ==
    /\ Running
    /\ suppc = "closeErr"
    /\ IF errCh = "closed"
       THEN /\ exitCode' = 2
            /\ UNCHANGED << errCh, suppc >>
       ELSE /\ errCh' = "closed"
            /\ suppc' = "done"
            /\ UNCHANGED exitCode
    /\ UNCHANGED << fs, capacity, mainpc, walkIdx, walkErr, fileCount, wg,
                    hashCh, hashChNil, errChNil >>
    /\ UNCHANGED taskVars
    /\ UNCHANGED scanVars
    /\ UNCHANGED actVars

Supervisor ==
    \/ SupWait
    \/ CloseHash
    \/ CloseErr

\* ------------------------------------------------------------------------
\* main: the select loop on closed channels (main.go 219-241)
\* ------------------------------------------------------------------------

\* the loop ends at the first closure it observes
LoopExitsOnEither(hNil, eNil) == hNil \/ eNil

\* the test that ends the loop: hashCh == nil && errCh == nil
LoopExits(hNil, eNil) == hNil /\ eNil

\* case file, ok := <-hashCh with ok false: hashCh = nil
RecvHashClosed ==
    /\ Running
    /\ mainpc = "select"
    /\ ~hashChNil
    /\ hashCh = "closed"
    /\ hashChNil' = TRUE
    /\ mainpc' = IF LoopExits(TRUE, errChNil) THEN "scanned" ELSE "select"
    /\ UNCHANGED << fs, capacity, exitCode, walkIdx, walkErr, fileCount, wg,
                    suppc, hashCh, errCh, errChNil >>
    /\ UNCHANGED taskVars
    /\ UNCHANGED scanVars
    /\ UNCHANGED actVars

\* case err, ok := <-errCh with ok false: errCh = nil
RecvErrClosed ==
    /\ Running
    /\ mainpc = "select"
    /\ ~errChNil
    /\ errCh = "closed"
    /\ errChNil' = TRUE
    /\ mainpc' = IF LoopExits(hashChNil, TRUE) THEN "scanned" ELSE "select"
    /\ UNCHANGED << fs, capacity, exitCode, walkIdx, walkErr, fileCount, wg,
                    suppc, hashCh, errCh, hashChNil >>
    /\ UNCHANGED taskVars
    /\ UNCHANGED scanVars
    /\ UNCHANGED actVars

\* after the loop: with an empty fileMap main returns (exit status 0)
AfterScan ==
    /\ Running
    /\ mainpc = "scanned"
    /\ IF DOMAIN fileMap # {}
       THEN /\ mainpc' = "prompt"
            /\ UNCHANGED exitCode
       ELSE /\ mainpc' = "returned"
            /\ exitCode' = 0
    /\ UNCHANGED << fs, capacity, walkIdx, walkErr, fileCount, wg, suppc >>
    /\ UNCHANGED taskVars
    /\ UNCHANGED chanVars
    /\ UNCHANGED scanVars
    /\ UNCHANGED actVars

\* ------------------------------------------------------------------------
\* main: the action selection (main.go 245-265) and the handlers
\* ------------------------------------------------------------------------

LowerChar(c) ==
    CASE c = "L" -> "l"
      [] c = "M" -> "m"
      [] c = "D" -> "d"
      [] c = "I" -> "i"
      [] c = "Y" -> "y"
      [] c = "E" -> "e"
      [] c = "S" -> "s"
      [] OTHER -> c

\* strings.ToLower
ToLower(text) == [i \in DOMAIN text |-> LowerChar(text[i])]

\* texts are sequences of characters; the lines read from standard input
Commands ==
    {<<"l">>, <<"L">>, <<"m">>, <<"M">>, <<"d">>, <<"i">>, <<"x">>}

Answers ==
    {<<"y", "e", "s">>, <<"Y", "E", "S">>, <<"n", "o">>, <<"y">>}

\* the destinations typed in: a directory that exists, one that does not, or
\* the path of an entry
Destinations == Dirs \cup {<<"missing">>, <<"root", "a">>}

Yes == <<"y", "e", "s">>

\* the digests of the groups the handlers act on: len(files) > 1
Duplicated == {h \in DOMAIN fileMap : Len(fileMap[h]) > 1}

\* the orders in which a range over the map may visit these groups
RangeOrders ==
    {o \in [1..Cardinality(Duplicated) -> Duplicated] :
        \A i, j \in DOMAIN o : i # j => o[i] # o[j]}

\* a loop over a group that starts at files[0]
EveryMember(h) == [i \in 1..Len(fileMap[h]) |-> fileMap[h][i].Path]

\* the paths of files[1], ..., files[len(files)-1] of one group
NonOriginals(h) == [i \in 1..(Len(fileMap[h]) - 1) |-> fileMap[h][i + 1].Path]

RECURSIVE Visit(_)
\* the paths a handler goes through, for one order of the groups
Visit(order) ==
    IF order = <<>> THEN <<>>
    ELSE NonOriginals(Head(order)) \o Visit(Tail(order))

\* os.Stat(path) succeeds
Exists(path) ==
    \/ path \in Dirs
    \/ path \in AllPaths /\ fs[path] # Absent

\* os.SameFile of two paths that exist
SameFile(path1, path2) == path1 = path2

\* every File of the grouping still describes the file at its path: the
\* user types commands about the groups that were found while they are what
\* is on disk
Fresh ==
    \A h \in DOMAIN fileMap :
        \A i \in DOMAIN fileMap[h] :
            LET f == fileMap[h][i]
            IN  /\ fs[f.Path] # Absent
                /\ File(f.Path, fs[f.Path].data) = f

\* the handler returns to the prompt: its locals are gone
Return ==
    /\ mainpc' = "prompt"
    /\ confirmation' = <<>>
    /\ destination' = <<>>
    /\ todo' = <<>>
    /\ report' = <<>>

frozenVars ==
    << capacity, exitCode, walkIdx, walkErr, fileCount, wg, suppc, fileMap,
       scannedCount, totalSize, errLog >>

pureVars ==
    << folderPath, copied >>

handlerVars ==
    << confirmation, destination, todo, report >>

RECURSIVE Listing(_)
\* the paths listFiles prints, for one order of the groups (main.go 66-76)
Listing(order) ==
    IF order = <<>> THEN <<>>
    ELSE [i \in DOMAIN fileMap[Head(order)] |-> fileMap[Head(order)][i].Path]
             \o Listing(Tail(order))

\* case "l": listFiles prints the groups
ChooseList ==
    /\ Running
    /\ mainpc = "prompt"
    /\ Fresh
    /\ \E cmd \in Commands :
         /\ ToLower(cmd) = <<"l">>
         /\ action' = ToLower(cmd)
         /\ typed' = <<cmd>>
    /\ \E order \in RangeOrders : printed' = Listing(order)
    /\ UNCHANGED << fs, mainpc >>
    /\ UNCHANGED handlerVars
    /\ UNCHANGED pureVars
    /\ UNCHANGED frozenVars
    /\ UNCHANGED taskVars
    /\ UNCHANGED chanVars

\* a default case that gives up
ChooseInvalidExits ==
    /\ Running
    /\ mainpc = "prompt"
    /\ Fresh
    /\ \E cmd \in Commands :
         /\ ToLower(cmd) \notin {<<"l">>, <<"m">>, <<"d">>, <<"i">>}
         /\ action' = ToLower(cmd)
         /\ typed' = <<cmd>>
    /\ printed' = <<>>
    /\ mainpc' = "exited"
    /\ exitCode' = 1
    /\ UNCHANGED << fs, capacity, walkIdx, walkErr, fileCount, wg, suppc >>
    /\ UNCHANGED handlerVars
    /\ UNCHANGED pureVars
    /\ UNCHANGED scanVars
    /\ UNCHANGED taskVars
    /\ UNCHANGED chanVars

\* default: "Invalid choice."
ChooseInvalid ==
    /\ Running
    /\ mainpc = "prompt"
    /\ Fresh
    /\ \E cmd \in Commands :
         /\ ToLower(cmd) \notin {<<"l">>, <<"m">>, <<"d">>, <<"i">>}
         /\ action' = ToLower(cmd)
         /\ typed' = <<cmd>>
    /\ printed' = <<>>
    /\ UNCHANGED << fs, mainpc >>
    /\ UNCHANGED handlerVars
    /\ UNCHANGED pureVars
    /\ UNCHANGED frozenVars
    /\ UNCHANGED taskVars
    /\ UNCHANGED chanVars

\* case "i": os.Exit(0)
ChooseIgnore ==
    /\ Running
    /\ mainpc = "prompt"
    /\ Fresh
    /\ \E cmd \in Commands :
         /\ ToLower(cmd) = <<"i">>
         /\ action' = ToLower(cmd)
         /\ typed' = <<cmd>>
    /\ printed' = <<>>
    /\ mainpc' = "exited"
    /\ exitCode' = 0
    /\ UNCHANGED << fs, capacity, walkIdx, walkErr, fileCount, wg, suppc >>
    /\ UNCHANGED handlerVars
    /\ UNCHANGED pureVars
    /\ UNCHANGED scanVars
    /\ UNCHANGED taskVars
    /\ UNCHANGED chanVars

\* a confirmation that anything but no gives
ConfirmedUnlessNo(answer) == ToLower(answer) # <<"n", "o">>

\* confirmation := strings.ToLower(scanner.Text()) and confirmation != "yes"
\* is false (main.go 82-83 and 160-161)
Confirmed(answer) == ToLower(answer) = Yes

\* case "m": moveFiles reads the confirmation and, if it is yes, the
\* destination, and starts to range over the map (main.go 78-92)
MoveStart ==
    /\ Running
    /\ mainpc = "prompt"
    /\ Fresh
    /\ printed' = <<>>
    /\ \E cmd \in Commands, answer \in Answers :
         /\ ToLower(cmd) = <<"m">>
         /\ action' = ToLower(cmd)
         /\ IF ~Confirmed(answer)
            THEN /\ Return
                 /\ typed' = <<cmd, answer>>
            ELSE \E dst \in Destinations, order \in RangeOrders :
                /\ typed' = <<cmd, answer, dst>>
                /\ mainpc' = "move"
                /\ confirmation' = ToLower(answer)
                /\ destination' = dst
                /\ todo' = Visit(order)
                /\ report' = <<>>
    /\ UNCHANGED fs
    /\ UNCHANGED pureVars
    /\ UNCHANGED frozenVars
    /\ UNCHANGED taskVars
    /\ UNCHANGED chanVars

\* what the environment may make fail for one file of a move
Faults == {"none", "stat", "rename", "copy", "remove"}

\* what the environment may make fail for one file of a delete
RemoveFaults == {"none", "remove"}

\* the filesystem after copyFile(src, dest) (main.go 136-154): os.Create
\* truncates or creates dest, io.Copy then writes what src holds by then;
\* a failing io.Copy leaves dest as created
CopyFile(src, dest, copyFails) ==
    LET created == [fs EXCEPT ![dest] = [kind |-> "regular", data |-> <<>>]]
    IN  IF copyFails THEN created
        ELSE [created EXCEPT ![dest].data = created[src].data]

\* os.Create(dest) succeeds: dest lies in a directory
CanCreate(dest) == dest \in AllPaths

\* copyFile(src, dest) (main.go 136-154): the filesystem it leaves and
\* whether it returns an error
copyFile(src, dest, fault) ==
    IF ~Exists(src) \/ fault = "open" THEN [fs |-> fs, err |-> TRUE]
    ELSE IF ~CanCreate(dest) \/ fault = "create" THEN [fs |-> fs, err |-> TRUE]
    ELSE IF fault = "copy" THEN [fs |-> CopyFile(src, dest, TRUE), err |-> TRUE]
    ELSE [fs |-> CopyFile(src, dest, FALSE), err |-> FALSE]

\* one pass of the loop body of moveFiles where a failed copy does not
\* skip the removal of the source
MoveFileRemovesAnyway(source, fault) ==
    LET dest == Join(destination, Base(source))
    IN  IF ~Exists(source) \/ fault = "stat"
        THEN [fs |-> fs, result |-> "sourceStatErr"]
        ELSE IF ~Exists(destination)
        THEN [fs |-> fs, result |-> "destStatErr"]
        ELSE IF SameFile(source, destination)
        THEN [fs |-> fs, result |-> "renameErr"]
        ELSE LET c == copyFile(source, dest, fault)
             IN  IF c.err
                 THEN [fs |-> [c.fs EXCEPT ![source] = Absent],
                       result |-> "copyErr"]
                 ELSE [fs |-> [c.fs EXCEPT ![source] = Absent],
                       result |-> "moved"]

\* the body of the loops of moveFiles for one path (main.go 95-129): the
\* filesystem it leaves and what it logs
MoveFile(source, fault) ==
    LET dest == Join(destination, Base(source))
    IN  IF ~Exists(source) \/ fault = "stat"
        THEN [fs |-> fs, result |-> "sourceStatErr"]
        ELSE IF ~Exists(destination)
        THEN [fs |-> fs, result |-> "destStatErr"]
        ELSE IF SameFile(source, destination)
        THEN IF ~CanCreate(dest) \/ fault = "rename"
             THEN [fs |-> fs, result |-> "renameErr"]
             ELSE [fs |-> [fs EXCEPT ![dest] = fs[source], ![source] = Absent],
                   result |-> "moved"]
        ELSE LET c == copyFile(source, dest, fault)
             IN  IF c.err THEN [fs |-> c.fs, result |-> "copyErr"]
                 ELSE IF fault = "remove"
                 THEN [fs |-> c.fs, result |-> "removeErr"]
                 ELSE [fs |-> [c.fs EXCEPT ![source] = Absent],
                       result |-> "moved"]

\* a loop that stops at the first member that fails
RemainingUntilFailure(result) ==
    IF result \in {"moved", "deleted"} THEN Tail(todo) ELSE <<>>

\* the paths the loops still go through after one member: a failure is
\* logged and the loop goes on (continue, main.go 102, 107, 122)
Remaining(result) == Tail(todo)

MoveOne ==
    /\ Running
    /\ mainpc = "move"
    /\ todo # <<>>
    /\ \E fault \in Faults :
         LET source == Head(todo)
             done == MoveFile(source, fault)
         IN  /\ fs' = done.fs
             /\ report' = Append(report, <<source, done.result>>)
             /\ todo' = Remaining(done.result)
    /\ typed' = <<>>
    /\ UNCHANGED << mainpc, confirmation, destination >>
    /\ UNCHANGED << action, printed >>
    /\ UNCHANGED pureVars
    /\ UNCHANGED frozenVars
    /\ UNCHANGED taskVars
    /\ UNCHANGED chanVars

\* moveFiles returns (main.go 133)
MoveReturn ==
    /\ Running
    /\ mainpc = "move"
    /\ todo = <<>>
    /\ Return
    /\ typed' = <<>>
    /\ UNCHANGED << fs, action, printed >>
    /\ UNCHANGED pureVars
    /\ UNCHANGED frozenVars
    /\ UNCHANGED taskVars
    /\ UNCHANGED chanVars

\* case "d": deleteFiles reads the confirmation and, if it is yes, starts to
\* range over the map (main.go 156-166)
DeleteStart ==
    /\ Running
    /\ mainpc = "prompt"
    /\ Fresh
    /\ printed' = <<>>
    /\ \E cmd \in Commands, answer \in Answers :
         /\ ToLower(cmd) = <<"d">>
         /\ action' = ToLower(cmd)
         /\ IF ~Confirmed(answer)
            THEN /\ Return
                 /\ typed' = <<cmd, answer>>
            ELSE \E order \in RangeOrders :
                /\ typed' = <<cmd, answer>>
                /\ mainpc' = "delete"
                /\ confirmation' = ToLower(answer)
                /\ destination' = <<>>
                /\ todo' = Visit(order)
                /\ report' = <<>>
    /\ UNCHANGED fs
    /\ UNCHANGED pureVars
    /\ UNCHANGED frozenVars
    /\ UNCHANGED taskVars
    /\ UNCHANGED chanVars

\* the body of the loops of deleteFiles for one path (main.go 169-175): the
\* filesystem it leaves and what it logs
DeleteFile(filePath, fault) ==
    IF ~Exists(filePath) \/ fault = "remove"
    THEN [fs |-> fs, result |-> "removeErr"]
    ELSE [fs |-> [fs EXCEPT ![filePath] = Absent], result |-> "deleted"]

DeleteOne ==
    /\ Running
    /\ mainpc = "delete"
    /\ todo # <<>>
    /\ \E fault \in RemoveFaults :
         LET filePath == Head(todo)
             done == DeleteFile(filePath, fault)
         IN  /\ fs' = done.fs
             /\ report' = Append(report, <<filePath, done.result>>)
             /\ todo' = Remaining(done.result)
    /\ typed' = <<>>
    /\ UNCHANGED << mainpc, confirmation, destination >>
    /\ UNCHANGED << action, printed >>
    /\ UNCHANGED pureVars
    /\ UNCHANGED frozenVars
    /\ UNCHANGED taskVars
    /\ UNCHANGED chanVars

\* deleteFiles returns (main.go 179)
DeleteReturn ==
    /\ Running
    /\ mainpc = "delete"
    /\ todo = <<>>
    /\ Return
    /\ typed' = <<>>
    /\ UNCHANGED << fs, action, printed >>
    /\ UNCHANGED pureVars
    /\ UNCHANGED frozenVars
    /\ UNCHANGED taskVars
    /\ UNCHANGED chanVars

Actions ==
    \/ ChooseList
    \/ ChooseInvalid
    \/ ChooseIgnore
    \/ MoveStart
    \/ MoveOne
    \/ MoveReturn
    \/ DeleteStart
    \/ DeleteOne
    \/ DeleteReturn

\* ------------------------------------------------------------------------
\* The handlers on a finished grouping
\* ------------------------------------------------------------------------

\* the paths under the root that hold the files of a finished scan
ScannedPaths == TreePaths \cup {<<"root", "sub", "b">>}

\* the filesystems a scan has finished on: at most MaxFiles + 1 regular
\* files under the root (a group of three has two members to move), and
\* possibly a regular file in the directory outside of it
ScannedTrees ==
    {t \in [AllPaths -> {Absent} \cup [kind : {"regular"}, data : Contents]] :
        /\ Cardinality({p \in ScannedPaths : t[p] # Absent}) \in 1..(MaxFiles + 1)
        /\ t[<<"out", "b">>] = Absent}

\* the files of the tree
Hashed == {p \in ScannedPaths : fs[p] # Absent}

\* the orders in which main may have received the File of every hashed path
Arrivals ==
    {o \in [1..Cardinality(Hashed) -> Hashed] :
        \A i, j \in DOMAIN o : i # j => o[i] # o[j]}

RECURSIVE Grouping(_)
\* fileMap after the Files of these paths were received in this order
\* (main.go 225-227)
Grouping(arrival) ==
    IF arrival = <<>> THEN << >>
    ELSE LET m == Grouping(SubSeq(arrival, 1, Len(arrival) - 1))
             p == arrival[Len(arrival)]
             file == File(p, fs[p].data)
         IN  IF file.Hash \in DOMAIN m
             THEN [m EXCEPT ![file.Hash] = Append(@, file)]
             ELSE m @@ (file.Hash :> <<file>>)

RECURSIVE SumSize(_)
\* the sum of the sizes of a set of files
SumSize(paths) ==
    IF paths = {} THEN 0
    ELSE LET p == CHOOSE q \in paths : TRUE
         IN  Len(fs[p].data) + SumSize(paths \ {p})

\* main at the action selection, after a scan in which every file of the
\* tree was hashed
Scanned ==
    /\ fs \in ScannedTrees
    /\ fileMap \in {Grouping(arrival) : arrival \in Arrivals}
    /\ capacity = 1
    /\ mainpc = "prompt"
    /\ exitCode = -1
    /\ walkIdx = Cardinality(TreeDirs) + Cardinality(Hashed) + 1
    /\ walkErr = FALSE
    /\ fileCount = Cardinality(Hashed)
    /\ wg = 0
    /\ tpc = [p \in ScannedPaths |-> IF p \in Hashed THEN "done" ELSE "none"]
    /\ outcome = [p \in ScannedPaths |-> IF p \in Hashed THEN "ok" ELSE "none"]
    /\ goroutineCh = 0
    /\ hashCh = "closed"
    /\ errCh = "closed"
    /\ hashChNil = TRUE
    /\ errChNil = TRUE
    /\ suppc = "done"
    /\ scannedCount = Cardinality(Hashed)
    /\ totalSize = SumSize(Hashed)
    /\ errLog = [p \in ScannedPaths |-> 0]
    /\ sent = [p \in ScannedPaths |->
                [hash |-> IF p \in Hashed THEN 1 ELSE 0, err |-> 0]]
    /\ slotOps = [p \in ScannedPaths |->
                   IF p \in Hashed THEN [acq |-> 1, rel |-> 1]
                   ELSE [acq |-> 0, rel |-> 0]]
    /\ action = <<>>
    /\ confirmation = <<>>
    /\ destination = <<>>
    /\ todo = <<>>
    /\ report = <<>>
    /\ printed = <<>>
    /\ typed = <<RootText>>
    /\ folderPath = formatPath(typed[1])
    /\ copied = <<>>

HandlerSpec == Scanned /\ [][Actions]_vars

\* ------------------------------------------------------------------------
\* formatPath and copyFile on their own
\* ------------------------------------------------------------------------

\* the longest line typed in for the folder path
MaxLen == 4

\* the characters of these lines: the two separators, a letter, a colon
PathChars == {"\\", "/", "a", ":"}

\* the lines typed in for the folder path
Texts == UNION {[1..n -> PathChars] : n \in 0..MaxLen}

\* no file, no task, no channel traffic, no command: what formatPath and
\* copyFile do not depend on
AtRest ==
    /\ capacity = 1
    /\ exitCode = -1
    /\ walkIdx = 1
    /\ walkErr = FALSE
    /\ fileCount = 0
    /\ wg = 0
    /\ tpc = [p \in TreePaths |-> "none"]
    /\ outcome = [p \in TreePaths |-> "none"]
    /\ goroutineCh = 0
    /\ hashCh = "open"
    /\ errCh = "open"
    /\ hashChNil = FALSE
    /\ errChNil = FALSE
    /\ suppc = "none"
    /\ fileMap = << >>
    /\ scannedCount = 0
    /\ totalSize = 0
    /\ errLog = [p \in TreePaths |-> 0]
    /\ sent = [p \in TreePaths |-> [hash |-> 0, err |-> 0]]
    /\ slotOps = [p \in TreePaths |-> [acq |-> 0, rel |-> 0]]
    /\ action = <<>>
    /\ confirmation = <<>>
    /\ destination = <<>>
    /\ todo = <<>>
    /\ report = <<>>
    /\ printed = <<>>

\* main has read the line of the folder path (main.go 183-184)
FolderTyped ==
    /\ AtRest
    /\ fs = [p \in AllPaths |-> Absent]
    /\ mainpc = "start"
    /\ typed \in {<<line>> : line \in Texts}
    /\ folderPath = <<>>
    /\ copied = <<>>

\* folderPath := formatPath(scanner.Text()) (main.go 185)
FormatFolder ==
    /\ Running
    /\ mainpc = "start"
    /\ folderPath' = formatPath(typed[1])
    /\ mainpc' = "walk"
    /\ UNCHANGED << fs, capacity, exitCode, walkIdx, walkErr, fileCount, wg,
                    suppc >>
    /\ UNCHANGED << action, confirmation, destination, todo, report, printed,
                    typed, copied >>
    /\ UNCHANGED taskVars
    /\ UNCHANGED chanVars
    /\ UNCHANGED scanVars

FormatSpec == FolderTyped /\ [][FormatFolder]_vars

\* the filesystems copyFile is called on: at most MaxFiles regular files
CopyTrees ==
    {t \in [AllPaths -> {Absent} \cup [kind : {"regular"}, data : Contents]] :
        Cardinality({p \in AllPaths : t[p] # Absent}) <= MaxFiles}

\* the destinations of a copy: a path in a directory that exists, or not
CopyDests == AllPaths \cup {<<"missing", "a">>}

\* what the environment may make fail in copyFile
CopyFaults == {"none", "open", "create", "copy"}

\* copyFile(src, dest) has been called; data is what src holds, if it exists
CopyCalled ==
    /\ AtRest
    /\ fs \in CopyTrees
    /\ mainpc = "copyFile"
    /\ typed = <<>>
    /\ folderPath = <<>>
    /\ copied \in {[src |-> src, dest |-> dest, returned |-> FALSE, err |-> FALSE,
                    data |-> IF fs[src] = Absent THEN <<>> ELSE fs[src].data] :
                      src \in AllPaths, dest \in CopyDests}

\* copyFile runs and returns (main.go 136-154)
CopyReturns ==
    /\ Running
    /\ mainpc = "copyFile"
    /\ ~copied.returned
    /\ \E fault \in CopyFaults :
         LET done == copyFile(copied.src, copied.dest, fault)
         IN  /\ fs' = done.fs
             /\ copied' = [copied EXCEPT !.returned = TRUE, !.err = done.err]
    /\ UNCHANGED << capacity, mainpc, exitCode, walkIdx, walkErr, fileCount, wg,
                    suppc >>
    /\ UNCHANGED << action, confirmation, destination, todo, report, printed,
                    typed, folderPath >>
    /\ UNCHANGED taskVars
    /\ UNCHANGED chanVars
    /\ UNCHANGED scanVars

CopySpec == CopyCalled /\ [][CopyReturns]_vars

Walk ==
    \/ WalkFn
    \/ WalkErr
    \/ WalkReturn

Select ==
    \/ RecvHashClosed
    \/ RecvErrClosed
    \/ AfterScan

\* the steps of the scan, up to the action selection
Scan ==
    \/ Walk
    \/ \E p \in TreePaths : calculateHash(p)
    \/ Supervisor
    \/ Select

Next ==
    \/ Scan
    \/ Actions

Spec == Init /\ [][Next]_vars

\* The scan under the scheduling of the Go runtime: every goroutine that can
\* take a step is run, and the select of main picks among its ready cases.
\* The commands typed at the action selection come after the scan and are
\* left out here.
FairSpec ==
    /\ Init
    /\ [][Scan]_vars
    /\ WF_vars(Walk)
    /\ WF_vars(Supervisor)
    /\ WF_vars(Select)
    /\ \A p \in TreePaths : WF_vars(calculateHash(p))

\* ------------------------------------------------------------------------
\* Properties
\* ------------------------------------------------------------------------

Failures == {"openErr", "readErr"}

\* the tasks between acquiring and releasing an admission slot
InFlight == {p \in TreePaths : tpc[p] \in {"open", "read", "sendHash", "sendErr", "release"}}

Dispatched == {p \in TreePaths : tpc[p] # "none"}

Finished == {p \in TreePaths : tpc[p] = "done"}

\* main has left the select loop
AggregatorExited == mainpc \notin {"walk", "fatal", "select"}

\* the paths of the records of the group keyed by digest h
GroupPaths(h) ==
    IF h \in DOMAIN fileMap
    THEN {fileMap[h][i].Path : i \in DOMAIN fileMap[h]}
    ELSE {}

GroupLen(h) == IF h \in DOMAIN fileMap THEN Len(fileMap[h]) ELSE 0

InSomeGroup(p) == \E h \in DOMAIN fileMap : p \in GroupPaths(h)

DigestOf(data) == SprintfHex(md5Sum(data))

\* C1: for every capacity C >= 1 and every schedule, at most C tasks are
\* between acquiring and releasing an admission slot.
C1_AtMostCInFlight ==
    /\ capacity >= 1
    /\ Cardinality(InFlight) <= capacity

\* one task blocked at the gate while the single slot is taken
C1_Witness ==
    /\ capacity = 1
    /\ Cardinality(InFlight) = 1
    /\ \E p \in TreePaths : tpc[p] = "acquire"

\* C2: every hashing task emits exactly one message over its life, a File on
\* hashCh or a HashError on errCh, never both and never none: none before it
\* reaches its send, one from then on, of the kind its outcome calls for.
C2_ExactlyOneMessage ==
    \A p \in TreePaths :
        /\ sent[p].hash + sent[p].err <= 1
        /\ tpc[p] \in {"none", "acquire", "open", "read", "sendHash", "sendErr"}
             => sent[p].hash + sent[p].err = 0
        /\ tpc[p] \in {"release", "wgDone", "done"}
             => /\ sent[p].hash + sent[p].err = 1
                /\ sent[p].hash = 1 <=> outcome[p] = "ok"
                /\ sent[p].err = 1 <=> outcome[p] \in Failures

\* a task whose read failed and a task that succeeded have both ended
C2_Witness ==
    \E p, q \in TreePaths :
        /\ tpc[p] = "done" /\ outcome[p] = "readErr" /\ sent[p].err = 1
        /\ tpc[q] = "done" /\ outcome[q] = "ok" /\ sent[q].hash = 1

\* every dispatched task has ended, both channels are closed and main has left
\* the select loop
ScanTerminated ==
    /\ AggregatorExited
    /\ Dispatched = Finished
    /\ hashCh = "closed"
    /\ errCh = "closed"
    /\ suppc = "done"

\* C3: the scan cannot deadlock: under fair scheduling the walk is never
\* blocked by a task and ends, and once it has returned without error every
\* dispatched task ends, both channels are closed and the select loop ends.
C3_NoDeadlock ==
    /\ [](mainpc = "walk" => ENABLED Walk)
    /\ <>(mainpc # "walk")
    /\ (mainpc = "select") ~> ScanTerminated

\* the scan has ended with one slot, two tasks, one of which failed
C3_Witness ==
    /\ ScanTerminated
    /\ capacity = 1
    /\ \E p, q \in Finished : outcome[p] = "ok" /\ outcome[q] \in Failures

\* C4: the select loop ends if and only if main has observed the closure of
\* both channels; after one closure only, whichever it is, main is still in
\* the loop.
C4_ExitIffBothClosed ==
    /\ AggregatorExited <=> (hashChNil /\ errChNil)
    /\ (hashChNil /\ ~errChNil) => mainpc = "select"
    /\ (errChNil /\ ~hashChNil) => mainpc = "select"
    /\ hashChNil => hashCh = "closed"
    /\ errChNil => errCh = "closed"

\* main has observed the closure of errCh first and is still in the loop
C4_Witness ==
    /\ errChNil
    /\ ~hashChNil
    /\ mainpc = "select"

\* C5: the supervisor closes the channels only after every dispatched task
\* has ended, every dispatch being counted in wg before the supervisor waits;
\* no task sends on a closed channel and no channel is closed twice (either
\* would panic, exit status 2).
C5_CloseAfterAllTasks ==
    /\ wg = Cardinality(Dispatched \ Finished)
    /\ suppc # "none" => mainpc # "walk"
    /\ (suppc \in {"closeHash", "closeErr", "done"} \/ hashCh = "closed" \/ errCh = "closed")
         => Dispatched = Finished
    /\ exitCode # 2

\* both channels are closed after two tasks have ended
C5_Witness ==
    /\ hashCh = "closed"
    /\ errCh = "closed"
    /\ Cardinality(Finished) = 2

\* C6: when the select loop has ended, the group of every content holds
\* exactly the dispatched files of that content whose hashing succeeded, each
\* once; different contents have different keys, and there is no other key.
C6_GroupsMatchContent ==
    mainpc = "scanned" =>
        /\ \A c \in Contents :
             /\ GroupPaths(DigestOf(c)) =
                  {p \in Dispatched : outcome[p] = "ok" /\ fs[p].data = c}
             /\ GroupLen(DigestOf(c)) = Cardinality(GroupPaths(DigestOf(c)))
        /\ \A c1, c2 \in Contents : c1 # c2 => DigestOf(c1) # DigestOf(c2)
        /\ DOMAIN fileMap \subseteq {DigestOf(c) : c \in Contents}
        /\ \A h \in DOMAIN fileMap : \A i \in DOMAIN fileMap[h] : fileMap[h][i].Hash = h

\* two files of the same content share a group of two
C6_Witness ==
    /\ mainpc = "scanned"
    /\ \E h \in DOMAIN fileMap : Len(fileMap[h]) = 2 /\ Cardinality(GroupPaths(h)) = 2

\* the scan has gone on after the failures: the loop has ended, every failed
\* path is logged once and is in no group, every file hashed with success is
\* in a group
ScanWentOn ==
    /\ mainpc = "scanned"
    /\ \A p \in TreePaths :
         outcome[p] \in Failures => errLog[p] = 1 /\ ~InSomeGroup(p)
    /\ \A q \in Dispatched : outcome[q] = "ok" => InSomeGroup(q)

\* C7: a task whose open or read fails produces a HashError of its path;
\* main logs it, the file is in no group, and the scan goes on: every other
\* file's record is aggregated and the select loop ends.
C7_FailureDoesNotAbort ==
    /\ [](\A p \in TreePaths : outcome[p] \in Failures => ~InSomeGroup(p))
    /\ [](\A p \in TreePaths : errLog[p] = sent[p].err)
    /\ (mainpc = "select" /\ \E p \in TreePaths : outcome[p] \in Failures)
         ~> ScanWentOn

\* the loop has ended with a failure logged beside an aggregated record
C7_Witness ==
    /\ ScanWentOn
    /\ \E p, q \in TreePaths :
         /\ outcome[p] = "openErr"
         /\ errLog[p] = 1
         /\ outcome[q] = "ok"
         /\ InSomeGroup(q)

\* C8: every task releases its slot exactly once per acquisition, on the
\* success path and on both failure paths; the number of held slots is the
\* number of tasks between acquire and release, and is zero once every
\* dispatched task has ended.
C8_ReleaseOncePerAcquire ==
    /\ \A p \in TreePaths :
         /\ slotOps[p].rel <= slotOps[p].acq
         /\ slotOps[p].acq <= 1
         /\ slotOps[p].acq - slotOps[p].rel = (IF p \in InFlight THEN 1 ELSE 0)
         /\ tpc[p] \in {"wgDone", "done"} => slotOps[p].acq = 1 /\ slotOps[p].rel = 1
    /\ goroutineCh = Cardinality(InFlight)
    /\ Dispatched = Finished => goroutineCh = 0

\* both failure paths have given their slot back
C8_Witness ==
    /\ goroutineCh = 0
    /\ \E p, q \in Finished :
         /\ outcome[p] = "openErr" /\ slotOps[p].rel = 1
         /\ outcome[q] = "readErr" /\ slotOps[q].rel = 1

\* C9: the walk dispatches a hashing task, and counts the entry in fileCount,
\* if and only if the entry is a regular file. (The statement of the claim;
\* the walk tests !info.IsDir() only.)
C9_DispatchIffRegular ==
    mainpc \in {"walk", "select"} =>
        /\ \A p \in Dispatched : fs[p].kind = "regular"
        /\ \A i \in 1..(walkIdx - 1) :
             (~IsDir(Entries[i]) /\ fs[Entries[i]].kind = "regular")
                => Entries[i] \in Dispatched
        /\ fileCount = Cardinality({p \in TreePaths : p \in Dispatched /\ fs[p].kind = "regular"})

\* C10: if the walk returns an error the run ends at once with a non-zero
\* exit status and nothing is retried: the supervisor and the select loop
\* are never started, no channel is closed, no message is received, fileMap
\* stays empty and no command is read, so no handler runs, whatever tasks
\* had been dispatched; and only a walk error ends the run that way.
C10_WalkErrorIsFatal ==
    /\ [](walkErr =>
            /\ mainpc = "fatal"
            /\ exitCode = 1
            /\ suppc = "none"
            /\ hashCh = "open" /\ errCh = "open"
            /\ ~hashChNil /\ ~errChNil
            /\ fileMap = << >>
            /\ scannedCount = 0
            /\ \A p \in TreePaths : sent[p].hash = 0 /\ sent[p].err = 0 /\ errLog[p] = 0
            /\ action = <<>> /\ todo = <<>>)
    /\ []((mainpc = "fatal" \/ exitCode = 1) => walkErr)
    /\ [][walkErr => UNCHANGED vars]_vars

\* the walk failed at the sub-directory after two tasks had been dispatched,
\* one of which holds the slot and is blocked on its send
C10_Witness ==
    /\ walkErr
    /\ exitCode = 1
    /\ Cardinality(Dispatched) = 2
    /\ \E p \in TreePaths : tpc[p] = "sendHash"

\* ------------------------------------------------------------------------
\* Properties of the handlers
\* ------------------------------------------------------------------------

\* deleteFiles has gone through every group and is about to return
DeleteDone == mainpc = "delete" /\ todo = <<>>

\* moveFiles has gone through every group and is about to return
MoveDone == mainpc = "move" /\ todo = <<>>

\* the running handler logged this result for this path
Reported(path, result) == \E i \in DOMAIN report : report[i] = <<path, result>>

\* the file a File of the grouping describes is at its path with the
\* content that was hashed
Untouched(f) ==
    /\ fs[f.Path] # Absent
    /\ File(f.Path, fs[f.Path].data) = f

\* the paths of the members of a group after its first
Members(h) == {fileMap[h][i].Path : i \in 2..Len(fileMap[h])}

Relocated(p, h) ==
    LET dest == Join(destination, Base(p))
    IN  /\ ~Exists(p)
        /\ dest \in AllPaths
        /\ fs[dest] # Absent
        /\ File(dest, fs[dest].data).Hash = h

\* C12: after a confirmed move, in every group of two or more the file of
\* member 0 is untouched and every later member that moveFiles reports as
\* moved has been relocated: its source path no longer exists and a file of
\* its base name and content exists in the destination, whatever the
\* destination directory and the paths of the members.
C12_MoveRelocatesAllButFirst ==
    MoveDone =>
        \A h \in DOMAIN fileMap :
            /\ Untouched(fileMap[h][1])
            /\ \A p \in Members(h) :
                 Reported(p, "moved") => Relocated(p, h)

\* the result moveFiles logged last
LastResult(log) == log[Len(log)][2]

\* C13: in every pass of the loop of moveFiles, a copyFile that returns an
\* error leaves the source in place (the pass is abandoned), and a source
\* that is gone after the pass is one whose copy returned without error:
\* the pass is reported as moved and, the destination path being another
\* path, it holds the bytes the source held.
C13_SourceRemovedOnlyAfterCopy ==
    [][(mainpc = "move" /\ todo # <<>>) =>
         LET source == Head(todo)
             dest == Join(destination, Base(source))
         IN  /\ LastResult(report') = "copyErr" => fs'[source] # Absent
             /\ (fs[source] # Absent /\ fs'[source] = Absent) =>
                  /\ LastResult(report') = "moved"
                  /\ dest # source =>
                       fs'[dest] = [kind |-> "regular", data |-> fs[source].data]
      ]_vars

\* a copy has failed after os.Create: the destination file is empty and the
\* source is still in place
C13_Witness ==
    /\ mainpc = "move"
    /\ \E i \in DOMAIN report :
         LET source == report[i][1]
             dest == Join(destination, Base(source))
         IN  /\ report[i][2] = "copyErr"
             /\ dest \in AllPaths
             /\ dest # source
             /\ fs[dest] = [kind |-> "regular", data |-> <<>>]
             /\ fs[source] # Absent

\* the paths of the later members of all the groups
AllMembers == UNION {Members(h) : h \in DOMAIN fileMap}

\* the paths in a sequence of paths
Range(paths) == {paths[i] : i \in DOMAIN paths}

\* the paths the running handler has logged a result for
Attempted == {report[i][1] : i \in DOMAIN report}

\* the results that are failures: main.go 101, 106, 114, 121, 125, 171
FailureResults ==
    {"sourceStatErr", "destStatErr", "renameErr", "copyErr", "removeErr"}

ListRan == \E order \in RangeOrders : printed' = Listing(order)

MoveRan == Len(typed') >= 2 /\ mainpc' \in {"prompt", "move"}

DeleteRan == Len(typed') >= 2 /\ mainpc' \in {"prompt", "delete"}

NoHandlerRan ==
    /\ Len(typed') = 1
    /\ printed' = <<>>
    /\ mainpc' = "prompt"
    /\ fs' = fs
    /\ exitCode' = -1

\* what the switch of main does with a command (main.go 251-263)
Switch(cmd) ==
    /\ cmd = <<"l">> => ListRan /\ mainpc' = "prompt"
    /\ cmd = <<"m">> => MoveRan
    /\ cmd = <<"d">> => DeleteRan
    /\ cmd = <<"i">> => mainpc' = "exited" /\ exitCode' = 0
    /\ cmd \notin {<<"l">>, <<"m">>, <<"d">>, <<"i">>} => NoHandlerRan

\* C15 as stated: the action selection comes after the aggregation; of the
\* line typed, l runs list, m runs move, d runs delete, i ends the program
\* with status 0, and any other line runs no handler and prompts again; the
\* process ends in the action selection or in a handler only by i.
C15_CommandsAsTyped ==
    [][/\ mainpc = "prompt" =>
            /\ hashChNil /\ errChNil
            /\ Switch(typed'[1])
       /\ (mainpc \in {"prompt", "move", "delete"} /\ exitCode' # -1) =>
            /\ mainpc = "prompt"
            /\ typed'[1] = <<"i">>
            /\ exitCode' = 0
      ]_vars

\* C15, amended: the same of the line typed taken in lower case
\* (strings.ToLower, main.go 249): L, M, D and I are commands too.
C15_CommandsInLowerCase ==
    [][/\ mainpc = "prompt" =>
            /\ hashChNil /\ errChNil
            /\ Switch(ToLower(typed'[1]))
       /\ (mainpc \in {"prompt", "move", "delete"} /\ exitCode' # -1) =>
            /\ mainpc = "prompt"
            /\ ToLower(typed'[1]) = <<"i">>
            /\ exitCode' = 0
      ]_vars

\* moveFiles runs its loops after the command M
C15_Witness ==
    /\ mainpc = "move"
    /\ typed # <<>>
    /\ typed[1] = <<"M">>

\* C16: the filesystem changes only in the loops of moveFiles and
\* deleteFiles, which run only with a confirmation that is yes in lower
\* case; a step from the prompt (the command read, list, the confirmation
\* and the destination read) changes no file, an answer that is yes in any
\* case starts the loops, and with any other answer the handler returns
\* at once, having attempted nothing.
C16_ChangesOnlyAfterYes ==
    [][/\ fs' # fs =>
            /\ mainpc \in {"move", "delete"}
            /\ confirmation = Yes
       /\ mainpc = "prompt" =>
            /\ fs' = fs
            /\ report' = <<>>
            /\ Len(typed') >= 2 =>
                 IF ToLower(typed'[2]) = Yes
                 THEN /\ mainpc' \in {"move", "delete"}
                      /\ confirmation' = Yes
                 ELSE mainpc' = "prompt"
      ]_vars

\* the loops of a handler start on a group after a confirmation typed in
\* upper case
C16_Witness ==
    /\ mainpc \in {"move", "delete"}
    /\ todo # <<>>
    /\ Len(typed) >= 2
    /\ typed[2] = <<"Y", "E", "S">>

\* ------------------------------------------------------------------------
\* Properties of formatPath and copyFile
\* ------------------------------------------------------------------------

\* C17: formatPath gives a text of the same length in which every backslash
\* of the input is a forward slash and every other character is the one of
\* the input; it holds no backslash, an input without backslash comes back
\* as it is, and formatPath of the result is the result.
C17_FormatPathReplacesBackslashes ==
    mainpc = "walk" =>
        LET line == typed[1]
        IN  /\ Len(folderPath) = Len(line)
            /\ \A i \in DOMAIN line :
                 folderPath[i] = IF line[i] = "\\" THEN "/" ELSE line[i]
            /\ \A i \in DOMAIN folderPath : folderPath[i] # "\\"
            /\ (\A i \in DOMAIN line : line[i] # "\\") => folderPath = line
            /\ formatPath(folderPath) = folderPath

\* formatPath has been applied to a line with two backslashes, a forward
\* slash and a letter
C17_Witness ==
    /\ mainpc = "walk"
    /\ \E i, j, k, l \in DOMAIN typed[1] :
         /\ i # j
         /\ typed[1][i] = "\\"
         /\ typed[1][j] = "\\"
         /\ typed[1][k] = "/"
         /\ typed[1][l] = "a"
    /\ folderPath # typed[1]

\* ------------------------------------------------------------------------
\* Order of the steps of a hashing task
\* ------------------------------------------------------------------------

\* the task of p is at its send, waiting for main to receive, or past it
AtOrPastEmit(p) ==
    \/ tpc[p] \in {"sendHash", "sendErr"}
    \/ sent[p].hash + sent[p].err > 0

\* the task of p holds a slot of goroutineCh
HoldsSlot(p) == slotOps[p].acq > slotOps[p].rel

\* C18: a hashing task has returned its admission slot before it emits its
\* File or HashError: no task that is at its send, waiting for main to
\* receive, or past it, holds a slot.
C18_SlotReturnedBeforeEmit ==
    \A p \in TreePaths : AtOrPastEmit(p) => ~HoldsSlot(p)

\* C19: whenever copyFile(src, dest) has returned without error, dest exists
\* and holds what src held before the call, and src still holds it, for
\* every pair of paths, dest being a new path or an existing file.
C19_CopyGivesEqualContent ==
    (copied # <<>> /\ copied.returned /\ ~copied.err) =>
        /\ fs[copied.dest] = [kind |-> "regular", data |-> copied.data]
        /\ fs[copied.src] = [kind |-> "regular", data |-> copied.data]

\* the contents present in some file of a filesystem
ContentsIn(files) == {files[p].data : p \in {q \in AllPaths : files[q] # Absent}}

\* C20: a confirmed move never destroys content: in every pass of the loop
\* that moveFiles reports as moved, every content that some file held before
\* the pass is held by some file after it (so every content present before
\* the move is present after it), whatever the destination and whatever
\* files of the same base name lie there.
C20_MoveKeepsEveryContent ==
    [][(mainpc = "move" /\ todo # <<>> /\ LastResult(report') = "moved") =>
         ContentsIn(fs) \subseteq ContentsIn(fs')
      ]_vars

====
